---- MODULE Spec2Model ----
(***************************************************************************)
(* SentinelX gateway API: report submission, status query and the          *)
(* processing-complete webhook, over the Redis hashes report:<id> and      *)
(* result:<id>, the Redis list gpu-worker-queue and the S3 bucket.         *)
(*                                                                         *)
(* Every handler is an async function.  One action models one await: the   *)
(* effect of the awaited store command together with the synchronous code  *)
(* that runs after it up to the next await (or the response).  Handlers    *)
(* of different requests interleave between awaits.                        *)
(***************************************************************************)
EXTENDS Integers, Sequences, FiniteSets, TLC

\* ---------------------------------------------------------------- bounds
\* number of requests the server handles concurrently
MaxInFlight == 2
\* number of reportIds uuidv4() hands out
MaxReports == 2
\* number of attachments of one submission
MaxFiles == 1
\* largest reading of the wall clock
MaxClock == 1
\* number of requests the server receives
MaxRequests == 3

Slots == 1..MaxInFlight
\* reportId 0 is an id no submission was ever given ("nonexistent-id")
ReportIds == 0..MaxReports

\* ------------------------------------------------------------ Redis hash
\* A Redis hash is a map from the field names it holds to their values; a
\* key that does not exist reads as the empty hash (hGetAll returns {}).
EmptyHash == [f \in {} |-> ""]

\* HSET key field value [field value ...]: sets the given fields and keeps
\* every other field of the hash.
HSet(h, obj) ==
  [f \in (DOMAIN h) \cup (DOMAIN obj) |-> IF f \in DOMAIN obj THEN obj[f] ELSE h[f]]

Has(obj, f) == f \in DOMAIN obj

\* JavaScript !v for a body field: true when it is undefined or "".
Falsy(obj, f) == (~Has(obj, f)) \/ obj[f] = ""

\* JSON.stringify / JSON.parse: the stored text is not the value itself.
JSONstringify(v) == <<"json", v>>
JSONparse(t) == t[2]

\* ------------------------------------------------------------- requests
RequiredFields == {"encryptedData", "wrappedKey", "contentHash"}

FullBodies ==
  [encryptedData : {"", "AB12"}, wrappedKey : {"", "WK1"},
   contentHash : {"", "H"}, ethTxHash : {"0xTX"}]

\* the bodies of POST /api/reports: each required field may be absent or
\* empty, and ethTxHash is optional
SubmitBodies ==
  {[f \in D |-> b[f]] : b \in FullBodies, D \in SUBSET RequiredFields}
  \cup {b \in FullBodies : \A f \in RequiredFields : b[f] # ""}

RedactionSummaries ==
  {[facesRedacted |-> 3, piiRedacted |-> 7, filesProcessed |-> 1],
   [facesRedacted |-> 0, piiRedacted |-> 0, filesProcessed |-> 1]}

\* the status a worker callback may carry: any string
CallbackStatuses == {"queued", "processing", "completed", "failed"}

IdleSlot == [op |-> "none", pc |-> "idle", id |-> 0, loc |-> EmptyHash]

VARIABLES
  report,    \* Redis: report[id] is the hash report:<id>
  result,    \* Redis: result[id] is the hash result:<id>
  queue,     \* Redis: the list gpu-worker-queue, head first
  blobs,     \* S3: the objects of the bucket
  slot,      \* the requests in flight: handler, position, reportId, locals
  lastResp,  \* the response sent last: handler, reportId, status code and body
  nextId,    \* the next value of uuidv4() used as a reportId
  now,       \* the wall clock (new Date())
  returned,  \* history: the reportIds returned by successful submissions
  requests,  \* the number of requests received
  called,    \* history: the reportIds a callback has written to
  lastApplied, \* history: per reportId, the callback accepted last
  \* IncidentProof, the ledger contract
  reports,          \* mapping(bytes32 => Report) reports: the keys written
  reportsByAddress, \* mapping(address => bytes32[]) reportsByAddress
  owner,            \* Ownable._owner
  blockTimestamp,   \* block.timestamp of the block being mined
  events,           \* the event log of the contract
  lastTx,           \* the call made last: function, msg.sender, arguments, outcome
  \* the reporter's page
  browser,          \* per page: position in handleSubmit, ethProof, payload, ...
  mempool,          \* the transactions wallets have sent and no block holds yet
  roundTrip         \* a report being encrypted and decrypted

gatewayVars == <<report, result, queue, blobs, slot, lastResp, nextId, now, returned, called, requests, lastApplied>>
ledgerVars == <<reports, reportsByAddress, owner, blockTimestamp, events, lastTx>>
frontendVars == <<browser, mempool, roundTrip>>
vars == <<gatewayVars, ledgerVars, frontendVars>>
stores == <<report, result, queue, blobs>>

Init ==
  /\ report = [i \in ReportIds |-> EmptyHash]
  /\ result = [i \in ReportIds |-> EmptyHash]
  /\ queue = <<>>
  /\ blobs = {}
  /\ slot = [s \in Slots |-> IdleSlot]
  /\ nextId = 1
  /\ now = 0
  /\ returned = {}
  /\ called = {}
  /\ requests = 0
  /\ lastApplied = [i \in ReportIds |-> EmptyHash]
  /\ lastResp = [op |-> "none", id |-> 0, resp |-> [code |-> 0], log |-> ""]

\* the clock advances between any two steps
Tick ==
  /\ now < MaxClock
  /\ now' = now + 1
  /\ UNCHANGED <<report, result, queue, blobs, slot, lastResp, nextId, returned, called, requests, lastApplied>>

\* the handler of slot s goes on to its next await
Continue(s, op, pc, id, loc) ==
  /\ slot' = [slot EXCEPT ![s] = [op |-> op, pc |-> pc, id |-> id, loc |-> loc]]
  /\ lastResp' = lastResp

\* res.status(..).json(r): the handler of slot s ends
Respond(s, op, id, r) ==
  /\ slot' = [slot EXCEPT ![s] = IdleSlot]
  /\ lastResp' = [op |-> op, id |-> id, resp |-> r, log |-> ""]

\* catch (error) { console.error(.., error); res.status(500).json(r) }: the
\* handler of slot s ends, having logged the command that threw
Fail(s, op, id, r, thrownBy) ==
  /\ slot' = [slot EXCEPT ![s] = IdleSlot]
  /\ lastResp' = [op |-> op, id |-> id, resp |-> r, log |-> thrownBy]

InternalError == [code |-> 500, error |-> "Internal server error"]

\* ------------------------------------------------------ POST /api/reports
\* variant: only an absent field counts as missing (=== undefined)
InvalidEnvelope_UndefinedOnly(body) ==
  (~Has(body, "encryptedData")) \/ (~Has(body, "wrappedKey")) \/ (~Has(body, "contentHash"))

\* if (!encryptedData || !wrappedKey || !contentHash) return 400
InvalidEnvelope(body) ==
  Falsy(body, "encryptedData") \/ Falsy(body, "wrappedKey") \/ Falsy(body, "contentHash")

ReportMetadata(reportId, body, nFiles) ==
  HSet([reportId |-> reportId, contentHash |-> body.contentHash,
        timestamp |-> now, status |-> "received", filesCount |-> nFiles],
       IF Has(body, "ethTxHash") THEN [ethTxHash |-> body.ethTxHash] ELSE EmptyHash)

JobData(reportId, body, fileUrls) ==
  [reportId |-> reportId, encryptedData |-> body.encryptedData,
   wrappedKey |-> body.wrappedKey, contentHash |-> body.contentHash,
   files |-> fileUrls, timestamp |-> now]

\* variant: the key does not carry the reportId
FileKey_Flat(reportId, k) == <<"reports", 0, k>>

\* reports/<reportId>/<uuid>-<originalname>: the uuid drawn for the k-th
\* file of the request is fresh, written k
FileKey(reportId, k) == <<"reports", reportId, k>>

\* request arrival: uuidv4(), validation, reportMetadata, and either the
\* first upload or the job
SubmitBegin(s, body, nFiles) ==
  /\ slot[s].pc = "idle"
  /\ requests < MaxRequests
  /\ requests' = requests + 1
  /\ nextId <= MaxReports
  /\ nextId' = nextId + 1
  /\ IF InvalidEnvelope(body)
       THEN Respond(s, "submit", nextId, [code |-> 400, error |-> "Missing required fields"])
       ELSE Continue(s, "submit", IF nFiles > 0 THEN "upload" ELSE "push", nextId,
                     [body |-> body, nFiles |-> nFiles,
                      reportMetadata |-> ReportMetadata(nextId, body, nFiles),
                      fileUrls |-> <<>>,
                      jobData |-> IF nFiles > 0 THEN EmptyHash
                                  ELSE JobData(nextId, body, <<>>)])
  /\ UNCHANGED <<report, result, queue, blobs, now, returned, called, lastApplied>>

\* variant: the outcome of the upload is not looked at
SubmitUpload_Unchecked(s, ok) ==
  /\ slot[s].op = "submit" /\ slot[s].pc = "upload"
  /\ LET l == slot[s].loc
         key == FileKey(slot[s].id, Len(l.fileUrls) + 1)
         urls == Append(l.fileUrls, key)
         last == Len(urls) = l.nFiles
     IN /\ blobs' = IF ok THEN blobs \cup {[key |-> key, cipherKey |-> l.body.wrappedKey]}
                         ELSE blobs
        /\ Continue(s, "submit", IF last THEN "push" ELSE "upload", slot[s].id,
                    [l EXCEPT !.fileUrls = urls,
                              !.jobData = IF last THEN JobData(slot[s].id, l.body, urls)
                                          ELSE EmptyHash])
  /\ UNCHANGED <<report, result, queue, nextId, now, returned, called, requests, lastApplied>>

\* await s3.upload(uploadParams).promise() for the next file
SubmitUpload(s, ok) ==
  /\ slot[s].op = "submit" /\ slot[s].pc = "upload"
  /\ LET l == slot[s].loc
         key == FileKey(slot[s].id, Len(l.fileUrls) + 1)
         urls == Append(l.fileUrls, key)
         last == Len(urls) = l.nFiles
     IN IF ok
          THEN /\ blobs' = blobs \cup {[key |-> key, cipherKey |-> l.body.wrappedKey]}
               /\ Continue(s, "submit", IF last THEN "push" ELSE "upload", slot[s].id,
                           [l EXCEPT !.fileUrls = urls,
                                     !.jobData = IF last THEN JobData(slot[s].id, l.body, urls)
                                                 ELSE EmptyHash])
          ELSE /\ blobs' = blobs
               /\ Fail(s, "submit", slot[s].id, InternalError, "s3.upload")
  /\ UNCHANGED <<report, result, queue, nextId, now, returned, called, requests, lastApplied>>

\* variant: the outcome of the push is not looked at
SubmitPush_Unchecked(s, ok) ==
  /\ slot[s].op = "submit" /\ slot[s].pc = "push"
  /\ queue' = IF ok THEN <<JSONstringify(slot[s].loc.jobData)>> \o queue ELSE queue
  /\ Continue(s, "submit", "store", slot[s].id, slot[s].loc)
  /\ UNCHANGED <<report, result, blobs, nextId, now, returned, called, requests, lastApplied>>

\* await redisClient.lPush('gpu-worker-queue', JSON.stringify(jobData))
SubmitPush(s, ok) ==
  /\ slot[s].op = "submit" /\ slot[s].pc = "push"
  /\ IF ok
       THEN /\ queue' = <<JSONstringify(slot[s].loc.jobData)>> \o queue
            /\ Continue(s, "submit", "store", slot[s].id, slot[s].loc)
       ELSE /\ queue' = queue
            /\ Fail(s, "submit", slot[s].id, InternalError, "lPush")
  /\ UNCHANGED <<report, result, blobs, nextId, now, returned, called, requests, lastApplied>>

\* await redisClient.hSet(`report:${reportId}`, {...}); res.json({...})
SubmitStore(s, ok) ==
  /\ slot[s].op = "submit" /\ slot[s].pc = "store"
  /\ LET id == slot[s].id
         l == slot[s].loc
     IN IF ok
          THEN /\ report' = [report EXCEPT ![id] =
                     HSet(@, HSet(l.reportMetadata, [jobData |-> JSONstringify(l.jobData)]))]
               /\ Respond(s, "submit", id,
                     [code |-> 200, reportId |-> id, status |-> "queued",
                      message |-> "Report received and queued for processing"])
               /\ returned' = returned \cup {id}
          ELSE /\ report' = report
               /\ Fail(s, "submit", id, InternalError, "hSet")
               /\ returned' = returned
  /\ UNCHANGED <<result, queue, blobs, nextId, now, called, requests, lastApplied>>

\* ------------------------------------- POST /api/webhook/processing-complete
\* the bodies a worker (or any caller) posts
WebhookBodies ==
  [reportId : ReportIds, status : CallbackStatuses,
   redactionSummary : RedactionSummaries, processedFiles : {<<"f1">>}]

WebhookError == [code |-> 500, error |-> "Webhook processing failed"]

\* request arrival and await redisClient.hSet(`report:${reportId}`, 'status',
\* status); the arguments of the next hSet, new Date() among them, are
\* evaluated when this await returns
WebhookSetStatus(s, body, ok) ==
  /\ slot[s].pc = "idle"
  /\ requests < MaxRequests
  /\ requests' = requests + 1
  /\ body.reportId < nextId
  /\ IF ok
       THEN /\ report' = [report EXCEPT ![body.reportId] = HSet(@, [status |-> body.status])]
            /\ called' = called \cup {body.reportId}
            /\ Continue(s, "webhook", "result", body.reportId,
                        [status |-> body.status,
                         resultFields |->
                           [redactionSummary |-> JSONstringify(body.redactionSummary),
                            processedFiles |-> JSONstringify(body.processedFiles),
                            completedAt |-> now]])
       ELSE /\ report' = report
            /\ called' = called
            /\ Fail(s, "webhook", body.reportId, WebhookError, "hSet")
  /\ UNCHANGED <<result, queue, blobs, nextId, now, returned, lastApplied>>

\* the (status, redactionSummary, processedFiles) of the callback a handler applies
Callback(loc) ==
  [status |-> loc.status, redactionSummary |-> loc.resultFields.redactionSummary,
   processedFiles |-> loc.resultFields.processedFiles]

\* await redisClient.hSet(`result:${reportId}`, {...}); res.json({success: true})
WebhookSetResult(s, ok) ==
  /\ slot[s].op = "webhook" /\ slot[s].pc = "result"
  /\ IF ok
       THEN /\ result' = [result EXCEPT ![slot[s].id] = HSet(@, slot[s].loc.resultFields)]
            /\ Respond(s, "webhook", slot[s].id, [code |-> 200, success |-> TRUE])
            /\ lastApplied' = [lastApplied EXCEPT ![slot[s].id] = Callback(slot[s].loc)]
       ELSE /\ result' = result
            /\ Fail(s, "webhook", slot[s].id, WebhookError, "hSet")
            /\ lastApplied' = lastApplied
  /\ UNCHANGED <<report, queue, blobs, nextId, now, returned, called, requests>>

\* ------------------------------------------ GET /api/reports/:reportId/status
Null == [null |-> TRUE]

\* the fields of obj among fs that are defined (res.json drops undefined)
Pick(obj, fs) == [f \in (DOMAIN obj) \cap fs |-> obj[f]]

\* variant: any non-empty hash counts as a report
ReportFound_NonEmpty(reportData) == reportData # EmptyHash

\* if (!reportData.reportId) return 404
ReportFound(reportData) == Has(reportData, "reportId")

\* request arrival and await redisClient.hGetAll(`report:${reportId}`)
StatusReadReport(s, id, ok) ==
  /\ slot[s].pc = "idle"
  /\ requests < MaxRequests
  /\ requests' = requests + 1
  /\ id < nextId
  /\ IF ~ok
       THEN Fail(s, "status", id, InternalError, "hGetAll")
       ELSE IF ~ReportFound(report[id])
              THEN Respond(s, "status", id, [code |-> 404, error |-> "Report not found"])
              ELSE Continue(s, "status", "readResult", id, report[id])
  /\ UNCHANGED <<report, result, queue, blobs, nextId, now, returned, called, lastApplied>>

StatusResponse(id, reportData, resultData) ==
  HSet([code |-> 200, reportId |-> id,
        filesCount |-> IF Has(reportData, "filesCount") THEN reportData.filesCount ELSE 0,
        redactionPreview |-> IF Has(resultData, "redactionSummary")
                               THEN JSONparse(resultData.redactionSummary)
                               ELSE Null],
       Pick(reportData, {"status", "timestamp", "ethTxHash"}))

\* await redisClient.hGetAll(`result:${reportId}`); res.json({...})
StatusReadResult(s, ok) ==
  /\ slot[s].op = "status" /\ slot[s].pc = "readResult"
  /\ IF ok
       THEN Respond(s, "status", slot[s].id,
                    StatusResponse(slot[s].id, slot[s].loc, result[slot[s].id]))
       ELSE Fail(s, "status", slot[s].id, InternalError, "hGetAll")
  /\ UNCHANGED <<report, result, queue, blobs, nextId, now, returned, called, requests, lastApplied>>

\* the gateway holds no handle to the ledger
Next ==
  \/ Tick /\ UNCHANGED <<ledgerVars, frontendVars>>
  \/ \E s \in Slots, body \in SubmitBodies, n \in 0..MaxFiles :
       SubmitBegin(s, body, n) /\ UNCHANGED <<ledgerVars, frontendVars>>
  \/ \E s \in Slots, ok \in BOOLEAN : SubmitUpload(s, ok) /\ UNCHANGED <<ledgerVars, frontendVars>>
  \/ \E s \in Slots, ok \in BOOLEAN : SubmitPush(s, ok) /\ UNCHANGED <<ledgerVars, frontendVars>>
  \/ \E s \in Slots, ok \in BOOLEAN : SubmitStore(s, ok) /\ UNCHANGED <<ledgerVars, frontendVars>>
  \/ \E s \in Slots, body \in WebhookBodies, ok \in BOOLEAN :
       WebhookSetStatus(s, body, ok) /\ UNCHANGED <<ledgerVars, frontendVars>>
  \/ \E s \in Slots, ok \in BOOLEAN : WebhookSetResult(s, ok) /\ UNCHANGED <<ledgerVars, frontendVars>>
  \/ \E s \in Slots, id \in ReportIds, ok \in BOOLEAN :
       StatusReadReport(s, id, ok) /\ UNCHANGED <<ledgerVars, frontendVars>>
  \/ \E s \in Slots, ok \in BOOLEAN : StatusReadResult(s, ok) /\ UNCHANGED <<ledgerVars, frontendVars>>

\* ======================================================================
\* IncidentProof: the ledger contract
\* ======================================================================
\* length of the event log: the constructor's event and one event per
\* successful transaction
MaxEvents == 3
\* number of blocks mined after the deployment
MaxBlocks == 1

\* the deployer of the contract and two other accounts (getSigners())
Deployer == "0xOwner"
Accounts == {Deployer, "0xReporter", "0xOther"}
ZeroAddress == "0x0"
Zero32 == "0x00"

\* ethers.keccak256(ethers.toUtf8Bytes(text))
Keccak256(text) == "keccak256(" \o text \o ")"

\* the bytes32 and string arguments callers pass
LedgerHashes == {Zero32, Keccak256("H"), Keccak256("H2")}
LedgerStatuses == {"", "submitted", "processing"}

\* a mapping holds the default value under every key never written
ZeroReport ==
  [contentHash |-> Zero32, reporter |-> ZeroAddress, timestamp |-> 0,
   status |-> "", exists |-> FALSE]

ReadReport(m, contentHash) == IF contentHash \in DOMAIN m THEN m[contentHash] ELSE ZeroReport
ReadList(m, a) == IF a \in DOMAIN m THEN m[a] ELSE <<>>
Write(m, k, v) == [x \in (DOMAIN m) \cup {k} |-> IF x = k THEN v ELSE m[x]]

\* variant: the event as the client's ABI declares it, without the status
ReportSubmitted_NoStatus(contentHash, reporter, timestamp, status) ==
  [name |-> "ReportSubmitted", contentHash |-> contentHash, reporter |-> reporter,
   timestamp |-> timestamp]

ReportSubmitted(contentHash, reporter, timestamp, status) ==
  [name |-> "ReportSubmitted", contentHash |-> contentHash, reporter |-> reporter,
   timestamp |-> timestamp, status |-> status]

StatusUpdated(contentHash, previousStatus, newStatus, updatedBy) ==
  [name |-> "StatusUpdated", contentHash |-> contentHash,
   previousStatus |-> previousStatus, newStatus |-> newStatus, updatedBy |-> updatedBy]

OwnershipTransferred(previousOwner, newOwner) ==
  [name |-> "OwnershipTransferred", previousOwner |-> previousOwner, newOwner |-> newOwner]

\* the state after the deployment: Ownable's constructor makes the deployer
\* the owner
LedgerInit ==
  /\ reports = [h \in {} |-> ZeroReport]
  /\ reportsByAddress = [a \in {} |-> <<>>]
  /\ owner = Deployer
  /\ blockTimestamp = 1
  /\ events = <<OwnershipTransferred(ZeroAddress, Deployer)>>
  /\ lastTx = [fn |-> "constructor", sender |-> Deployer, hash |-> Zero32, arg |-> "",
               error |-> "", ret |-> EmptyHash]

\* a later block is being mined
NewBlock ==
  /\ blockTimestamp < 1 + MaxBlocks
  /\ blockTimestamp' = blockTimestamp + 1
  /\ UNCHANGED <<reports, reportsByAddress, owner, events, lastTx>>

\* require(.., reason) fails: the call reverts and leaves the storage and
\* the log as they were
Reverted(fn, sender, contentHash, arg, reason) ==
  /\ lastTx' = [fn |-> fn, sender |-> sender, hash |-> contentHash, arg |-> arg,
                error |-> reason, ret |-> EmptyHash]
  /\ UNCHANGED <<reports, reportsByAddress, owner, events>>

\* the call ends normally, returning ret
Returned(fn, sender, contentHash, arg, ret) ==
  lastTx' = [fn |-> fn, sender |-> sender, hash |-> contentHash, arg |-> arg,
             error |-> "", ret |-> ret]

\* variant: the modifier lets every hash pass
ReportExists_Always(contentHash) == TRUE

\* modifier reportExists(contentHash)
ReportExists(contentHash) == ReadReport(reports, contentHash).exists

\* variant: the owner is not let in
OnlyReporter_ReporterOnly(sender, contentHash) ==
  ReadReport(reports, contentHash).reporter = sender

\* modifier onlyReporter(contentHash)
OnlyReporter(sender, contentHash) ==
  ReadReport(reports, contentHash).reporter = sender \/ sender = owner

\* variant: every caller is let in
OnlyOwner_Anyone(sender) == TRUE

\* Ownable's modifier onlyOwner
OnlyOwner(sender) == owner = sender

\* variant: a hash is never taken as submitted before
AlreadySubmitted_Never(contentHash) == FALSE

\* reports[contentHash].exists, as submitReport requires it not to hold
AlreadySubmitted(contentHash) == ReadReport(reports, contentHash).exists

\* variant: the hash is not pushed onto the list of the sender
SubmitReport_NoIndex(sender, contentHash, status) ==
  /\ IF contentHash = Zero32
       THEN Reverted("submitReport", sender, contentHash, status, "Invalid content hash")
       ELSE IF status = ""
       THEN Reverted("submitReport", sender, contentHash, status, "Status cannot be empty")
       ELSE IF AlreadySubmitted(contentHash)
       THEN Reverted("submitReport", sender, contentHash, status, "Report already exists")
       ELSE /\ Len(events) < MaxEvents
            /\ reports' = Write(reports, contentHash,
                                [contentHash |-> contentHash, reporter |-> sender,
                                 timestamp |-> blockTimestamp, status |-> status,
                                 exists |-> TRUE])
            /\ reportsByAddress' = reportsByAddress
            /\ events' = Append(events,
                                ReportSubmitted(contentHash, sender, blockTimestamp, status))
            /\ Returned("submitReport", sender, contentHash, status, EmptyHash)
            /\ UNCHANGED owner
  /\ UNCHANGED blockTimestamp

\* function submitReport(bytes32 contentHash, string memory status)
SubmitReport(sender, contentHash, status) ==
  /\ IF contentHash = Zero32
       THEN Reverted("submitReport", sender, contentHash, status, "Invalid content hash")
       ELSE IF status = ""
       THEN Reverted("submitReport", sender, contentHash, status, "Status cannot be empty")
       ELSE IF AlreadySubmitted(contentHash)
       THEN Reverted("submitReport", sender, contentHash, status, "Report already exists")
       ELSE /\ Len(events) < MaxEvents
            /\ reports' = Write(reports, contentHash,
                                [contentHash |-> contentHash, reporter |-> sender,
                                 timestamp |-> blockTimestamp, status |-> status,
                                 exists |-> TRUE])
            /\ reportsByAddress' =
                 Write(reportsByAddress, sender,
                       Append(ReadList(reportsByAddress, sender), contentHash))
            /\ events' = Append(events,
                                ReportSubmitted(contentHash, sender, blockTimestamp, status))
            /\ Returned("submitReport", sender, contentHash, status, EmptyHash)
            /\ UNCHANGED owner
  /\ UNCHANGED blockTimestamp

\* what getReport(contentHash) returns on the mapping m
GetReportResult(m, contentHash) ==
  [timestamp |-> ReadReport(m, contentHash).timestamp,
   status |-> ReadReport(m, contentHash).status,
   reporter |-> ReadReport(m, contentHash).reporter]

\* function getReport(bytes32 contentHash) view reportExists(contentHash)
GetReport(sender, contentHash) ==
  /\ IF ~ReportExists(contentHash)
       THEN Reverted("getReport", sender, contentHash, "", "Report does not exist")
       ELSE /\ Returned("getReport", sender, contentHash, "",
                        GetReportResult(reports, contentHash))
            /\ UNCHANGED <<reports, reportsByAddress, owner, events>>
  /\ UNCHANGED blockTimestamp

\* function reportExists(bytes32 contentHash) view returns (bool exists)
ReportExistsCall(sender, contentHash) ==
  /\ Returned("reportExists", sender, contentHash, "",
              [exists |-> ReadReport(reports, contentHash).exists])
  /\ UNCHANGED <<reports, reportsByAddress, owner, events, blockTimestamp>>

\* function getReportsByAddress(address reporter) view returns (bytes32[] memory)
GetReportsByAddress(sender, reporter) ==
  /\ Returned("getReportsByAddress", sender, Zero32, reporter,
              [hashes |-> ReadList(reportsByAddress, reporter)])
  /\ UNCHANGED <<reports, reportsByAddress, owner, events, blockTimestamp>>

\* function getReportCount(address reporter) view returns (uint256 count)
GetReportCount(sender, reporter) ==
  /\ Returned("getReportCount", sender, Zero32, reporter,
              [count |-> Len(ReadList(reportsByAddress, reporter))])
  /\ UNCHANGED <<reports, reportsByAddress, owner, events, blockTimestamp>>

\* the status of the record is set and StatusUpdated is emitted
SetStatus(fn, sender, contentHash, newStatus) ==
  /\ Len(events) < MaxEvents
  /\ reports' = Write(reports, contentHash,
                      [ReadReport(reports, contentHash) EXCEPT !.status = newStatus])
  /\ events' = Append(events,
                      StatusUpdated(contentHash, ReadReport(reports, contentHash).status,
                                    newStatus, sender))
  /\ Returned(fn, sender, contentHash, newStatus, EmptyHash)
  /\ UNCHANGED <<reportsByAddress, owner>>

\* function updateStatus(bytes32 contentHash, string memory newStatus)
\*   reportExists(contentHash) onlyReporter(contentHash) nonReentrant
UpdateStatus(sender, contentHash, newStatus) ==
  /\ IF ~ReportExists(contentHash)
       THEN Reverted("updateStatus", sender, contentHash, newStatus, "Report does not exist")
       ELSE IF ~OnlyReporter(sender, contentHash)
       THEN Reverted("updateStatus", sender, contentHash, newStatus,
                     "Only reporter or owner can update")
       ELSE IF newStatus = ""
       THEN Reverted("updateStatus", sender, contentHash, newStatus, "Status cannot be empty")
       ELSE SetStatus("updateStatus", sender, contentHash, newStatus)
  /\ UNCHANGED blockTimestamp

\* function emergencyUpdateStatus(bytes32 contentHash, string memory newStatus)
\*   onlyOwner reportExists(contentHash) nonReentrant
EmergencyUpdateStatus(sender, contentHash, newStatus) ==
  /\ IF ~OnlyOwner(sender)
       THEN Reverted("emergencyUpdateStatus", sender, contentHash, newStatus,
                     "Ownable: caller is not the owner")
       ELSE IF ~ReportExists(contentHash)
       THEN Reverted("emergencyUpdateStatus", sender, contentHash, newStatus,
                     "Report does not exist")
       ELSE SetStatus("emergencyUpdateStatus", sender, contentHash, newStatus)
  /\ UNCHANGED blockTimestamp

\* Ownable.transferOwnership(address newOwner) onlyOwner
TransferOwnership(sender, newOwner) ==
  /\ IF ~OnlyOwner(sender)
       THEN Reverted("transferOwnership", sender, Zero32, newOwner,
                     "Ownable: caller is not the owner")
       ELSE IF newOwner = ZeroAddress
       THEN Reverted("transferOwnership", sender, Zero32, newOwner,
                     "Ownable: new owner is the zero address")
       ELSE /\ Len(events) < MaxEvents
            /\ owner' = newOwner
            /\ events' = Append(events, OwnershipTransferred(owner, newOwner))
            /\ Returned("transferOwnership", sender, Zero32, newOwner, EmptyHash)
            /\ UNCHANGED <<reports, reportsByAddress>>
  /\ UNCHANGED blockTimestamp

\* Ownable.renounceOwnership() onlyOwner
RenounceOwnership(sender) ==
  /\ IF ~OnlyOwner(sender)
       THEN Reverted("renounceOwnership", sender, Zero32, "",
                     "Ownable: caller is not the owner")
       ELSE /\ Len(events) < MaxEvents
            /\ owner' = ZeroAddress
            /\ events' = Append(events, OwnershipTransferred(owner, ZeroAddress))
            /\ Returned("renounceOwnership", sender, Zero32, "", EmptyHash)
            /\ UNCHANGED <<reports, reportsByAddress>>
  /\ UNCHANGED blockTimestamp

\* every account may call every external function with any arguments
LedgerNext ==
  \/ NewBlock /\ UNCHANGED <<gatewayVars, frontendVars>>
  \/ \E a \in Accounts, h \in LedgerHashes, st \in LedgerStatuses :
       SubmitReport(a, h, st) /\ UNCHANGED <<gatewayVars, frontendVars>>
  \/ \E a \in Accounts, h \in LedgerHashes : GetReport(a, h) /\ UNCHANGED <<gatewayVars, frontendVars>>
  \/ \E a \in Accounts, h \in LedgerHashes : ReportExistsCall(a, h) /\ UNCHANGED <<gatewayVars, frontendVars>>
  \/ \E a \in Accounts, r \in Accounts \cup {ZeroAddress} :
       GetReportsByAddress(a, r) /\ UNCHANGED <<gatewayVars, frontendVars>>
  \/ \E a \in Accounts, r \in Accounts \cup {ZeroAddress} :
       GetReportCount(a, r) /\ UNCHANGED <<gatewayVars, frontendVars>>
  \/ \E a \in Accounts, h \in LedgerHashes, st \in LedgerStatuses :
       UpdateStatus(a, h, st) /\ UNCHANGED <<gatewayVars, frontendVars>>
  \/ \E a \in Accounts, h \in LedgerHashes, st \in LedgerStatuses :
       EmergencyUpdateStatus(a, h, st) /\ UNCHANGED <<gatewayVars, frontendVars>>
  \/ \E a \in Accounts, n \in Accounts \cup {ZeroAddress} :
       TransferOwnership(a, n) /\ UNCHANGED <<gatewayVars, frontendVars>>
  \/ \E a \in Accounts : RenounceOwnership(a) /\ UNCHANGED <<gatewayVars, frontendVars>>

\* ======================================================================
\* The reporter's page: E2EECrypto, EthereumProof, IncidentForm and App
\* ======================================================================
\* number of pages on which a report is submitted, once each
MaxClients == 2

Clients == 1..MaxClients
Undefined == "undefined"

\* CryptoJS.mode.GCM in the bundle the page loads: the crypto-js releases
\* define the modes CBC, CFB, CTR, CTRGladman, OFB and ECB and no GCM, and
\* the property then reads undefined; a bundle built with a package that
\* defines it holds a mode
ModeGCM == {Undefined, "GCM"}

\* a File object of the file input
FileObject(name) == [name |-> name]

\* formData, the state of the form
ReportFields ==
  [title : {"t1", "t2", "t3"}, description : {"d"}, category : {"general"},
   severity : {"medium", "high"}, files : {<<>>, <<FileObject("a.png")>>}]

\* what JSON.parse yields for the text of a form: every File object has
\* become the empty object
PlainFields ==
  [title : {"t1", "t2", "t3"}, description : {"d"}, category : {"general"},
   severity : {"medium", "high"}, files : {<<>>, <<EmptyHash>>}]

\* JSON.stringify(data) for the form: a File object has no enumerable
\* property of its own and is written {}
StringifyForm(data) ==
  "{title:" \o data.title \o ",description:" \o data.description
  \o ",category:" \o data.category \o ",severity:" \o data.severity
  \o ",files:[" \o (IF data.files = <<>> THEN "" ELSE "{}") \o "]}"

\* JSON.stringify(encryptedReport)
StringifyEnvelope(content) ==
  "{ciphertext:" \o content.ciphertext \o ",iv:" \o content.iv
  \o ",salt:" \o content.salt \o "}"

\* CryptoJS.lib.WordArray.random(256/8).toString(): the n-th key drawn is
\* unlike every other
GenerateKey(n) == "key" \o ToString(n)

\* the random salt of the k-th passphrase encryption on page c
FreshSalt(c, k) == "salt" \o ToString(c) \o "." \o ToString(k)
Salts == {FreshSalt(c, k) : c \in Clients, k \in 1..2}

\* EvpKDF: key and iv derived from passphrase and salt
EvpKDF(passphrase, salt) ==
  [key |-> "evpKey(" \o passphrase \o "," \o salt \o ")",
   iv |-> "evpIv(" \o passphrase \o "," \o salt \o ")"]

\* the AES ciphertext of text under key and iv in a mode
AESBlock(mode, key, iv, text) ==
  "aes-" \o mode \o "(" \o key \o "," \o iv \o "," \o text \o ")"

\* CipherParams.toString(): the OpenSSL format, salt before ciphertext
OpenSSL(salt, ciphertext) == "Salted__" \o salt \o ciphertext

\* WordArray.toString(): hex
Hex(w) == "hex(" \o w \o ")"

Thrown(e) == [error |-> e, value |-> EmptyHash]
Value(v) == [error |-> "", value |-> v]

\* CryptoJS.AES.encrypt(text, passphrase, {mode}): BlockCipher.reset reads
\* mode.createEncryptor, a TypeError when mode is undefined
AESEncrypt(text, passphrase, mode, salt) ==
  IF mode = Undefined
    THEN Thrown("TypeError")
    ELSE LET d == EvpKDF(passphrase, salt)
         IN Value([ciphertext |-> AESBlock(mode, d.key, d.iv, text),
                   iv |-> d.iv, salt |-> salt])

\* the texts and salts a ciphertext string may hold
FormTexts == {StringifyForm(data) : data \in ReportFields}

\* CryptoJS.AES.decrypt(str, passphrase, {mode, iv, salt}).toString(Utf8):
\* the string is parsed for its salt, key and iv are derived from the
\* passphrase and that salt (the iv and salt of the options are not used),
\* and the text comes back if the string was made under that key
AESDecrypt(str, passphrase, mode) ==
  IF mode = Undefined
    THEN Thrown("TypeError")
    ELSE LET made == {p \in Salts \X FormTexts :
                        OpenSSL(p[1], AESBlock(mode, EvpKDF(passphrase, p[1]).key,
                                               EvpKDF(passphrase, p[1]).iv, p[2])) = str}
         IN IF made = {} THEN Thrown("Malformed UTF-8 data")
                         ELSE Value((CHOOSE p \in made : TRUE)[2])

\* JSON.parse(text) for the text of a form
ParseForm(text) == CHOOSE v \in PlainFields : StringifyForm(v) = text

\* E2EECrypto.encryptReport(data, key)
EncryptReport(data, key, mode, salt) ==
  LET encrypted == AESEncrypt(StringifyForm(data), key, mode, salt)
  IN IF encrypted.error # ""
       THEN encrypted
       ELSE Value([ciphertext |-> OpenSSL(salt, encrypted.value.ciphertext),
                   iv |-> Hex(encrypted.value.iv),
                   salt |-> Hex(encrypted.value.salt)])

\* E2EECrypto.decryptReport(encryptedData, key)
DecryptReport(encryptedData, key, mode) ==
  LET decrypted == AESDecrypt(encryptedData.ciphertext, key, mode)
  IN IF decrypted.error # "" THEN decrypted ELSE Value(ParseForm(decrypted.value))

\* E2EECrypto.wrapKey(symmetricKey, recipientPublicKey): the default mode
WrapKey(symmetricKey, recipientPublicKey, salt) ==
  LET d == EvpKDF(recipientPublicKey, salt)
  IN OpenSSL(salt, AESBlock("CBC", d.key, d.iv, symmetricKey))

\* E2EECrypto.hashContent(content)
HashContent(content) == "sha3(" \o StringifyEnvelope(content) \o ")"

\* number of recipient key pairs drawn by generateKeyPair
MaxKeyPairs == 3

KeyPairs == 1..MaxKeyPairs

\* CryptoJS.SHA256(text).toString()
SHA256(text) == "sha256(" \o text \o ")"

\* E2EECrypto.generateKeyPair(): the n-th private key drawn is unlike every
\* other, the public key is its SHA-256
GenerateKeyPair(n) ==
  [privateKey |-> "priv" \o ToString(n), publicKey |-> SHA256("priv" \o ToString(n))]

\* the report keys a wrapped key may hold
ReportKeys == {GenerateKey(c) : c \in Clients}

\* E2EECrypto.unwrapKey(wrappedKey, privateKey), the outcomes it can have:
\* CryptoJS.AES.decrypt derives key and iv from the passphrase privateKey and
\* the salt held in wrappedKey; the key comes back if wrappedKey was made
\* under that very passphrase; under another one the bytes are garbled, and
\* toString(Utf8) throws or gives a text that is no key, depending on them
UnwrapKey(wrappedKey, privateKey) ==
  LET made == {p \in Salts \X ReportKeys : WrapKey(p[2], privateKey, p[1]) = wrappedKey}
  IN IF made = {} THEN {Thrown("Malformed UTF-8 data"), Value("")}
                  ELSE {Value(p[2]) : p \in made}

\* ------------------------------------------------------- encrypt, decrypt
\* a report encrypted and decrypted again under one key
RoundTripIdle == [pc |-> "idle"]

RoundTripStarts ==
  {[pc |-> "start", mode |-> m, data |-> d, key |-> GenerateKey(c), salt |-> FreshSalt(c, 1)] :
     m \in ModeGCM, d \in ReportFields, c \in Clients}

Encrypt ==
  /\ roundTrip.pc = "start"
  /\ LET r == EncryptReport(roundTrip.data, roundTrip.key, roundTrip.mode, roundTrip.salt)
     IN roundTrip' =
          IF r.error # ""
            THEN [pc |-> "threw", mode |-> roundTrip.mode, data |-> roundTrip.data,
                  key |-> roundTrip.key, error |-> r.error]
            ELSE [pc |-> "encrypted", mode |-> roundTrip.mode, data |-> roundTrip.data,
                  key |-> roundTrip.key, envelope |-> r.value]
  /\ UNCHANGED <<browser, mempool>>

Decrypt ==
  /\ roundTrip.pc = "encrypted"
  /\ LET r == DecryptReport(roundTrip.envelope, roundTrip.key, roundTrip.mode)
     IN roundTrip' =
          IF r.error # ""
            THEN [pc |-> "threw", mode |-> roundTrip.mode, data |-> roundTrip.data,
                  key |-> roundTrip.key, error |-> r.error]
            ELSE [pc |-> "decrypted", mode |-> roundTrip.mode, data |-> roundTrip.data,
                  key |-> roundTrip.key, plain |-> r.value]
  /\ UNCHANGED <<browser, mempool>>

CryptoNext ==
  \/ Encrypt /\ UNCHANGED <<gatewayVars, ledgerVars>>
  \/ Decrypt /\ UNCHANGED <<gatewayVars, ledgerVars>>

\* ------------------------------------------------------------ wrap, unwrap
\* a report key wrapped for a recipient and unwrapped by some party
WrapStarts ==
  {[pc |-> "start", pair |-> GenerateKeyPair(n), key |-> k, salt |-> st] :
     n \in KeyPairs, k \in ReportKeys, st \in Salts}

\* the passphrases a party may try: the keys of every pair and the key
\* the page wraps for
Passphrases ==
  {GenerateKeyPair(n).privateKey : n \in KeyPairs}
  \cup {GenerateKeyPair(n).publicKey : n \in KeyPairs}
  \cup {"demo-recipient-key"}

\* wrapKey(key, pair.publicKey)
Wrap ==
  /\ roundTrip.pc = "start"
  /\ roundTrip' = [pc |-> "wrapped", pair |-> roundTrip.pair, key |-> roundTrip.key,
                   wrappedKey |-> WrapKey(roundTrip.key, roundTrip.pair.publicKey,
                                          roundTrip.salt)]
  /\ UNCHANGED <<browser, mempool>>

\* unwrapKey(wrappedKey, secret)
Unwrap(secret) ==
  /\ roundTrip.pc = "wrapped"
  /\ \E r \in UnwrapKey(roundTrip.wrappedKey, secret) :
       roundTrip' = [pc |-> "unwrapped", pair |-> roundTrip.pair, key |-> roundTrip.key,
                     secret |-> secret, outcome |-> r]
  /\ UNCHANGED <<browser, mempool>>

KeysNext ==
  \/ Wrap /\ UNCHANGED <<gatewayVars, ledgerVars>>
  \/ \E secret \in Passphrases : Unwrap(secret) /\ UNCHANGED <<gatewayVars, ledgerVars>>

\* ------------------------------------------------------------- the page
\* the page before it is loaded
ClosedPage == [pc |-> "closed"]

\* the page as loaded: the form is shown, ethProof is null
OpenPage(mode) ==
  [pc |-> "form", mode |-> mode, ethProof |-> FALSE, warned |-> FALSE,
   payload |-> EmptyHash, conn |-> 0, currentReport |-> EmptyHash, alert |-> ""]

\* the account of the wallet of page c
Signer(c) == IF c = 1 THEN "0xReporter" ELSE "0xOther"

\* connectEthereum: connectWallet() and, if it went through, setEthProof(eth)
ConnectEthereum(c, ok) ==
  /\ browser[c].pc = "form" /\ ~browser[c].ethProof
  /\ browser' = [browser EXCEPT ![c] =
                   IF ok THEN [@ EXCEPT !.ethProof = TRUE]
                         ELSE [@ EXCEPT !.alert = "Ethereum connection failed"]]
  /\ browser' # browser
  /\ UNCHANGED <<mempool, roundTrip>>

\* the reports typed into the pages: with and without an attachment
FormInputs == {d \in ReportFields : d.title = "t1" /\ d.severity = "medium"}

\* handleSubmit up to its first await: key, ciphertext, wrapped key, content
\* hash and payload
HandleSubmit(c, formData) ==
  /\ browser[c].pc = "form"
  /\ LET reportKey == GenerateKey(c)
         encrypted == EncryptReport(formData, reportKey, browser[c].mode, FreshSalt(c, 1))
     IN browser' = [browser EXCEPT ![c] =
          IF encrypted.error # ""
            THEN [@ EXCEPT !.pc = "failed", !.alert = "Submission failed"]
            ELSE [@ EXCEPT !.pc = IF browser[c].ethProof THEN "anchor" ELSE "post",
                           !.payload =
                             [encryptedData |-> encrypted.value,
                              wrappedKey |-> WrapKey(reportKey, "demo-recipient-key",
                                                     FreshSalt(c, 2)),
                              contentHash |-> HashContent(encrypted.value),
                              files |-> formData.files]]]
  /\ UNCHANGED <<mempool, roundTrip>>

\* the hash of the transaction a wallet sends
TxHash(from, hashBytes) == "0xtx(" \o from \o "," \o hashBytes \o ")"

\* variant: no try around submitProof, its error ends the submission
SubmitProof_Uncaught(c, ok) ==
  /\ browser[c].pc = "anchor"
  /\ LET hashBytes == Keccak256(browser[c].payload.contentHash)
         tx == [from |-> Signer(c), hash |-> hashBytes, status |-> "submitted",
                txHash |-> TxHash(Signer(c), hashBytes)]
     IN IF ok
          THEN /\ mempool' = mempool \cup {tx}
               /\ browser' = [browser EXCEPT ![c] =
                    [@ EXCEPT !.pc = "post",
                              !.payload = HSet(@, [ethTxHash |-> tx.txHash])]]
          ELSE /\ mempool' = mempool
               /\ browser' = [browser EXCEPT ![c] =
                    [@ EXCEPT !.pc = "failed", !.alert = "Submission failed"]]
  /\ UNCHANGED roundTrip

\* await ethProof.submitProof(contentHash): the wallet sends submitReport(
\* keccak256(contentHash), "submitted") and its hash goes into the payload,
\* or the call throws and the error is logged
SubmitProof(c, ok) ==
  /\ browser[c].pc = "anchor"
  /\ LET hashBytes == Keccak256(browser[c].payload.contentHash)
         tx == [from |-> Signer(c), hash |-> hashBytes, status |-> "submitted",
                txHash |-> TxHash(Signer(c), hashBytes)]
     IN IF ok
          THEN /\ mempool' = mempool \cup {tx}
               /\ browser' = [browser EXCEPT ![c] =
                    [@ EXCEPT !.pc = "post",
                              !.payload = HSet(@, [ethTxHash |-> tx.txHash])]]
          ELSE /\ mempool' = mempool
               /\ browser' = [browser EXCEPT ![c] =
                    [@ EXCEPT !.pc = "post", !.warned = TRUE]]
  /\ UNCHANGED roundTrip

\* variant: the content hash is looked up as it is
GetProof_Direct(contentHash) ==
  IF ReportExists(contentHash)
    THEN Value(GetReportResult(reports, contentHash))
    ELSE Thrown("Report does not exist")

\* EthereumProof.getProof(contentHash): getReport(keccak256(contentHash)),
\* which reverts for a hash without a record
GetProof(contentHash) ==
  IF ReportExists(Keccak256(contentHash))
    THEN Value(GetReportResult(reports, Keccak256(contentHash)))
    ELSE Thrown("Report does not exist")

\* the transaction is mined: the contract runs submitReport
MineTx(tx) ==
  /\ tx \in mempool
  /\ SubmitReport(tx.from, tx.hash, tx.status)
  /\ mempool' = mempool \ {tx}
  /\ UNCHANGED <<browser, roundTrip>>

\* the body express.json() hands to the handler: the nested object
\* encryptedData is carried as its text; files is not read from the body
RequestBody(payload) ==
  HSet([encryptedData |-> StringifyEnvelope(payload.encryptedData),
        wrappedKey |-> payload.wrappedKey, contentHash |-> payload.contentHash],
       Pick(payload, {"ethTxHash"}))

\* handleReportSubmit once the response is there: an error for a status
\* outside 2xx, which handleSubmit reports, else setCurrentReport
Received(page, resp) ==
  IF resp.code = 200
    THEN [page EXCEPT !.pc = "done",
                      !.currentReport =
                        HSet([reportId |-> resp.reportId,
                              contentHash |-> page.payload.contentHash],
                             Pick(page.payload, {"ethTxHash"}))]
    ELSE [page EXCEPT !.pc = "failed", !.alert = "Submission failed"]

\* await onSubmit(payload): fetch('/api/reports', POST) reaches the gateway,
\* whose handler runs up to its first await; a JSON body has no req.files
Fetch(c, s) ==
  /\ browser[c].pc = "post"
  /\ SubmitBegin(s, RequestBody(browser[c].payload), 0)
  /\ browser' = [browser EXCEPT ![c] =
       IF slot'[s].pc = "idle" THEN Received(@, lastResp'.resp)
                               ELSE [@ EXCEPT !.pc = "waiting", !.conn = s]]
  /\ UNCHANGED <<mempool, roundTrip>>

\* fetch rejects: the request never reaches the gateway
FetchFails(c) ==
  /\ browser[c].pc = "post"
  /\ browser' = [browser EXCEPT ![c] = [@ EXCEPT !.pc = "failed", !.alert = "Submission failed"]]
  /\ UNCHANGED <<mempool, roundTrip>>

\* the page waiting for the answer of the handler in slot s gets it
Deliver(s) ==
  /\ browser' =
       [c \in Clients |->
          IF browser[c].pc = "waiting" /\ browser[c].conn = s /\ slot'[s].pc = "idle"
            THEN Received(browser[c], lastResp'.resp)
            ELSE browser[c]]
  /\ UNCHANGED <<mempool, roundTrip>>

\* the reporter closes the page while handleSubmit is at an await
Abandon(c) ==
  /\ browser[c].pc \in {"anchor", "post", "waiting"}
  /\ browser' = [browser EXCEPT ![c] = [@ EXCEPT !.pc = "abandoned"]]
  /\ UNCHANGED <<mempool, roundTrip>>

\* pages, wallets, the chain and the gateway serving the pages
ClientNext ==
  \/ \E c \in Clients, ok \in BOOLEAN :
       ConnectEthereum(c, ok) /\ UNCHANGED <<gatewayVars, ledgerVars>>
  \/ \E c \in Clients, formData \in FormInputs :
       HandleSubmit(c, formData) /\ UNCHANGED <<gatewayVars, ledgerVars>>
  \/ \E c \in Clients, ok \in BOOLEAN :
       SubmitProof(c, ok) /\ UNCHANGED <<gatewayVars, ledgerVars>>
  \/ \E tx \in mempool : MineTx(tx) /\ UNCHANGED gatewayVars
  \/ \E c \in Clients, s \in Slots : Fetch(c, s) /\ UNCHANGED ledgerVars
  \/ \E c \in Clients : FetchFails(c) /\ UNCHANGED <<gatewayVars, ledgerVars>>
  \/ \E s \in Slots, ok \in BOOLEAN : SubmitPush(s, ok) /\ Deliver(s) /\ UNCHANGED ledgerVars
  \/ \E s \in Slots, ok \in BOOLEAN : SubmitStore(s, ok) /\ Deliver(s) /\ UNCHANGED ledgerVars
  \/ \E c \in Clients : Abandon(c) /\ UNCHANGED <<gatewayVars, ledgerVars>>

\* no page is loaded, no transaction is pending
FrontendIdle ==
  /\ browser = [c \in Clients |-> ClosedPage]
  /\ mempool = {}
  /\ roundTrip = RoundTripIdle

\* ======================================================================
\* Specifications
\* ======================================================================
\* the gateway is up, the contract is deployed, no page is loaded
SystemInit == Init /\ LedgerInit /\ FrontendIdle

\* the gateway, beside a ledger nobody calls
Spec == SystemInit /\ [][Next]_vars

\* the ledger contract called by any account, beside an idle gateway
SpecLedger == SystemInit /\ [][LedgerNext]_vars

\* the pages are loaded from one bundle
ClientInit ==
  /\ Init /\ LedgerInit
  /\ \E mode \in ModeGCM : browser = [c \in Clients |-> OpenPage(mode)]
  /\ mempool = {}
  /\ roundTrip = RoundTripIdle

\* reporters submitting through the page, the wallet, the chain and the gateway
SpecClient == ClientInit /\ [][ClientNext]_vars

\* a report, a key and a salt are given
CryptoInit ==
  /\ Init /\ LedgerInit
  /\ browser = [c \in Clients |-> ClosedPage]
  /\ mempool = {}
  /\ roundTrip \in RoundTripStarts

\* encryptReport and decryptReport applied in turn
SpecCrypto == CryptoInit /\ [][CryptoNext]_vars

\* a recipient key pair, a report key and a salt are given
KeysInit ==
  /\ Init /\ LedgerInit
  /\ browser = [c \in Clients |-> ClosedPage]
  /\ mempool = {}
  /\ roundTrip \in WrapStarts

\* wrapKey and unwrapKey applied in turn
SpecKeys == KeysInit /\ [][KeysNext]_vars

\* ======================================================================
\* Properties
\* ======================================================================
Terminal == {"completed", "failed"}

\* the step is the arrival of callback b in slot s and its first await
IsCallbackStatusStep(s, b) ==
  /\ requests' # requests /\ nextId' = nextId /\ slot[s].pc = "idle"
  /\ \E ok \in BOOLEAN : WebhookSetStatus(s, b, ok)

\* the status store holds the record a submission wrote for reportId i
HasStatusRecord(i) == Has(report[i], "reportId")

\* a submission with reportId i is being handled
SubmitInFlight(i) == \E s \in Slots : slot[s].op = "submit" /\ slot[s].id = i

\* the reportIds of the jobs on the worker queue
QueuedIds == {JSONparse(queue[k]).reportId : k \in 1..Len(queue)}

\* the reportIds under which blobs were written
BlobIds == {b.key[2] : b \in blobs}

\* no other handler is at work on reportId i
OnlyHandler(s, i) == \A o \in Slots \ {s} : slot[o].pc = "idle" \/ slot[o].id # i

\* the record of reportId i was written by a submission and the callback
\* accepted last for it, a completed one, is what the store holds
Completed(i) ==
  /\ HasStatusRecord(i)
  /\ Has(lastApplied[i], "status") /\ lastApplied[i].status = "completed"
  /\ report[i].status = "completed"
  /\ Has(result[i], "redactionSummary")
  /\ result[i].redactionSummary = lastApplied[i].redactionSummary

\* C1: a record in status completed is left unchanged (status and redaction
\* summary) by a later callback that carries status processing or queued.
C1_Monotonic ==
  [][/\ \A s \in Slots, b \in WebhookBodies :
          (/\ IsCallbackStatusStep(s, b)
           /\ Completed(b.reportId) /\ OnlyHandler(s, b.reportId)
           /\ b.status \in {"processing", "queued"})
          => report'[b.reportId] = report[b.reportId]
     /\ \A s \in Slots :
          (/\ WebhookSetResult(s, TRUE)
           /\ HasStatusRecord(slot[s].id) /\ OnlyHandler(s, slot[s].id)
           /\ Has(lastApplied[slot[s].id], "status")
           /\ lastApplied[slot[s].id].status = "completed"
           /\ slot[s].loc.status \in {"processing", "queued"})
          => result'[slot[s].id] = result[slot[s].id]]_vars

\* C2: once a record is completed with summary S1, a later callback with a
\* terminal status and another summary is rejected, and S1 and the status
\* stay stored.
C2_FirstTerminalWriteWins ==
  [][/\ \A s \in Slots, b \in WebhookBodies :
          (/\ IsCallbackStatusStep(s, b)
           /\ Completed(b.reportId) /\ OnlyHandler(s, b.reportId)
           /\ b.status \in Terminal
           /\ JSONstringify(b.redactionSummary) # result[b.reportId].redactionSummary)
          => report'[b.reportId] = report[b.reportId]
     /\ \A s \in Slots :
          (/\ WebhookSetResult(s, TRUE)
           /\ HasStatusRecord(slot[s].id) /\ OnlyHandler(s, slot[s].id)
           /\ Has(lastApplied[slot[s].id], "status")
           /\ lastApplied[slot[s].id].status = "completed"
           /\ Has(result[slot[s].id], "redactionSummary")
           /\ result[slot[s].id].redactionSummary = lastApplied[slot[s].id].redactionSummary
           /\ slot[s].loc.status \in Terminal
           /\ slot[s].loc.resultFields.redactionSummary # result[slot[s].id].redactionSummary)
          => /\ result'[slot[s].id].redactionSummary = result[slot[s].id].redactionSummary
             /\ lastResp'.resp.code # 200]_vars

\* C3: the (reportId, completed, summary) callback that was accepted last
\* for a report, applied again, is accepted and leaves the whole stored
\* record and result (completion time included) as they were.
C3_Idempotent ==
  [][/\ \A s \in Slots, b \in WebhookBodies :
          (/\ IsCallbackStatusStep(s, b)
           /\ Completed(b.reportId) /\ OnlyHandler(s, b.reportId)
           /\ b.status = "completed"
           /\ JSONstringify(b.redactionSummary) = result[b.reportId].redactionSummary)
          => report'[b.reportId] = report[b.reportId]
     /\ \A s \in Slots :
          (/\ WebhookSetResult(s, TRUE)
           /\ HasStatusRecord(slot[s].id) /\ OnlyHandler(s, slot[s].id)
           /\ slot[s].loc.status = "completed"
           /\ lastApplied[slot[s].id] = Callback(slot[s].loc)
           /\ Has(result[slot[s].id], "completedAt"))
          => /\ result'[slot[s].id] = result[slot[s].id]
             /\ lastResp'.resp.code = 200]_vars

\* C4: a callback for a reportId no submission created is rejected and
\* creates neither a status entry nor a result entry.
C4_UnknownReport ==
  /\ \A i \in ReportIds :
       (i \notin returned /\ ~SubmitInFlight(i))
       => (report[i] = EmptyHash /\ result[i] = EmptyHash)
  /\ (lastResp.op = "webhook" /\ lastResp.id \notin returned /\ ~SubmitInFlight(lastResp.id))
       => lastResp.resp.code # 200

\* C5: a status query for a reportId that no successful submission returned
\* answers 404 "Report not found" whenever the store can be read, and never
\* answers with a record, also after a callback was posted for that id.
C5_NotFound ==
  /\ [][\A s \in Slots, i \in ReportIds :
          (StatusReadReport(s, i, TRUE) /\ i \notin returned)
          => lastResp' = [op |-> "status", id |-> i, log |-> "",
                          resp |-> [code |-> 404, error |-> "Report not found"]]]_vars
  /\ []((lastResp.op = "status" /\ lastResp.resp.code = 200) => lastResp.id \in returned)

C5_Witness ==
  /\ lastResp.op = "status" /\ lastResp.resp.code = 404
  /\ lastResp.id \in called /\ lastResp.id \notin returned
  /\ report[lastResp.id] # EmptyHash

\* C6: the status a query returns for a submitted report that no callback
\* has written to is queued, the status of the submit response.
C6_QueuedAfterSubmit ==
  (lastResp.op = "status" /\ lastResp.resp.code = 200 /\ lastResp.id \notin called)
  => lastResp.resp.status = "queued"

\* C7: a submission whose encryptedData, wrappedKey or contentHash is
\* missing or empty is answered 400 "Missing required fields" and leaves
\* blob store, queue and status store unchanged.
MissingField(body) ==
  \E f \in {"encryptedData", "wrappedKey", "contentHash"} :
    f \notin DOMAIN body \/ body[f] = ""

\* a step that draws a reportId is the arrival of a submission: either its
\* handler goes on, and then its body has no missing field, or it has
\* answered 400 and nothing was stored
C7_InvalidEnvelopeRejected ==
  [][(nextId' # nextId) =>
       /\ \A s \in Slots :
            (slot'[s] # slot[s])
            => (slot'[s].op = "submit" /\ ~MissingField(slot'[s].loc.body))
       /\ (slot' = slot)
            => /\ lastResp' = [op |-> "submit", id |-> nextId, log |-> "",
                               resp |-> [code |-> 400, error |-> "Missing required fields"]]
               /\ UNCHANGED stores]_vars

C7_Witness ==
  /\ lastResp.op = "submit" /\ lastResp.resp.code = 400
  /\ report[lastResp.id] = EmptyHash /\ queue = <<>> /\ blobs = {}

\* C8: when no submission is being handled, a job for a reportId is on the
\* queue exactly if the status store holds the record of that reportId.
C8_EnqueueAtomic ==
  (\A s \in Slots : slot[s].op # "submit")
  => \A i \in ReportIds : (i \in QueuedIds) <=> HasStatusRecord(i)

\* C9: a failed attachment upload ends the submission with an error and
\* without a queue push or a status write; a job that is pushed lists every
\* attachment of its submission, each of them stored.
C9_UploadFailureRejects ==
  /\ [][\A s \in Slots :
          SubmitUpload(s, FALSE)
          => /\ lastResp' = [op |-> "submit", id |-> slot[s].id, log |-> "s3.upload",
                             resp |-> [code |-> 500, error |-> "Internal server error"]]
             /\ slot'[s] = IdleSlot
             /\ slot[s].id \notin QueuedIds'
             /\ ~Has(report'[slot[s].id], "reportId")
             /\ queue' = queue /\ report' = report]_vars
  /\ [](\A s \in Slots :
          (slot[s].op = "submit" /\ slot[s].pc \in {"push", "store"})
          => /\ Len(slot[s].loc.jobData.files) = slot[s].loc.nFiles
             /\ \A k \in 1..slot[s].loc.nFiles :
                  \E b \in blobs : b.key = slot[s].loc.jobData.files[k])
  /\ [](\A s \in Slots :
          (slot[s].op = "submit" /\ slot[s].pc = "upload") => slot[s].id \notin QueuedIds)

C9_Witness ==
  /\ lastResp.op = "submit" /\ lastResp.resp.code = 500 /\ lastResp.log = "s3.upload"
  /\ lastResp.id \notin QueuedIds /\ lastResp.id \notin BlobIds
  /\ ~HasStatusRecord(lastResp.id)
  /\ \E i \in QueuedIds : i \in BlobIds

\* C10: a submission that ends with an error leaves nothing of itself in
\* the blob store, the queue or the status store.
C10_NoPartialState ==
  (lastResp.op = "submit" /\ lastResp.resp.code = 500)
  => /\ lastResp.id \notin BlobIds
     /\ lastResp.id \notin QueuedIds
     /\ ~HasStatusRecord(lastResp.id)

\* the job pushed for reportId i
JobOf(i) == JSONparse(queue[CHOOSE k \in 1..Len(queue) : JSONparse(queue[k]).reportId = i])

\* the job of reportId i is on the queue, every attachment it lists is in
\* the blob store, as many as the submission carried, and the status store
\* holds the record of i
FullyQueued(i) ==
  /\ i \in QueuedIds
  /\ HasStatusRecord(i)
  /\ Len(JobOf(i).files) = report[i].filesCount
  /\ \A k \in 1..Len(JobOf(i).files) : \E b \in blobs : b.key = JobOf(i).files[k]

\* C11: a reportId is sent to a caller only in the answer of a submission
\* whose uploads have all completed, whose job is on the queue and whose
\* status record is written; this stays so for every reportId returned.
C11_ReturnedMeansQueued ==
  /\ \A i \in returned : FullyQueued(i)
  /\ (lastResp.op = "submit" /\ Has(lastResp.resp, "reportId"))
       => (lastResp.resp.reportId \in returned /\ lastResp.resp.code = 200)
  /\ \A s \in Slots :
       (slot[s].op = "submit" /\ slot[s].pc # "idle") => slot[s].id \notin returned

C11_Witness ==
  /\ lastResp.op = "submit" /\ lastResp.resp.code = 200
  /\ Has(lastResp.resp, "reportId") /\ lastResp.resp.reportId \in returned
  /\ report[lastResp.id].filesCount = MaxFiles
  /\ \E b \in blobs : b.key = JobOf(lastResp.id).files[1]

\* C12: when a completed callback for a submitted report is accepted and
\* no other handler is at work on that report, the stores hold completed
\* and the summary of that callback, and a status query made from then on
\* without interference answers completed with exactly that summary.
C12_CompletedVisible ==
  [][/\ \A s \in Slots :
          (/\ WebhookSetResult(s, TRUE)
           /\ slot[s].loc.status = "completed"
           /\ slot[s].id \in returned /\ OnlyHandler(s, slot[s].id))
          => /\ report'[slot[s].id].status = "completed"
             /\ result'[slot[s].id].redactionSummary = slot[s].loc.resultFields.redactionSummary
     /\ \A s \in Slots :
          (/\ StatusReadResult(s, TRUE)
           /\ Completed(slot[s].id) /\ OnlyHandler(s, slot[s].id)
           /\ slot[s].loc.status = "completed")
          => /\ lastResp'.resp.status = "completed"
             /\ lastResp'.resp.redactionPreview = JSONparse(lastApplied[slot[s].id].redactionSummary)]_vars

\* ------------------------------------------------------------ the ledger
\* the storage and the event log of the contract
ledgerState == <<reports, reportsByAddress, owner, events>>

\* the ledger holds a record for hash h
Anchored(h) == h \in DOMAIN reports /\ reports[h].exists

\* account a is the reporter of the record of h, or the owner of the contract
Authorised(a, h) == a = ReadReport(reports, h).reporter \/ a = owner

\* the call a step of the ledger makes is the one lastTx' names
IsSubmitReport ==
  lastTx'.fn = "submitReport" /\ SubmitReport(lastTx'.sender, lastTx'.hash, lastTx'.arg)
IsUpdateStatus ==
  lastTx'.fn = "updateStatus" /\ UpdateStatus(lastTx'.sender, lastTx'.hash, lastTx'.arg)
IsGetReport == lastTx'.fn = "getReport" /\ GetReport(lastTx'.sender, lastTx'.hash)
IsReportExistsCall ==
  lastTx'.fn = "reportExists" /\ ReportExistsCall(lastTx'.sender, lastTx'.hash)

\* C13, as stated: once a hash is anchored, every later submitReport for
\* it, by any caller and with any status, fails with "Report already
\* exists" and leaves the ledger unchanged.
C13_DuplicateHash ==
  [][(IsSubmitReport /\ Anchored(lastTx'.hash))
       => /\ lastTx'.error = "Report already exists"
          /\ UNCHANGED ledgerState]_vars

\* C13, amended: once a hash is anchored, every later submitReport for it
\* fails and leaves the ledger, the record of the first submitter included,
\* unchanged; the failure is "Report already exists" when the status passed
\* is not empty, and "Status cannot be empty" when it is.
C13_DuplicateRejected ==
  [][(IsSubmitReport /\ Anchored(lastTx'.hash))
       => /\ lastTx'.error = IF lastTx'.arg = "" THEN "Status cannot be empty"
                                                 ELSE "Report already exists"
          /\ UNCHANGED ledgerState
          /\ GetReportResult(reports', lastTx'.hash) = GetReportResult(reports, lastTx'.hash)]_vars

C13_Witness ==
  /\ lastTx.fn = "submitReport" /\ lastTx.error = "Report already exists"
  /\ Anchored(lastTx.hash)
  /\ reports[lastTx.hash].reporter # lastTx.sender
  /\ reports[lastTx.hash].status # lastTx.arg

\* C14, as stated: updateStatus on an anchored hash succeeds exactly when
\* the caller is the reporter of the record or the owner; any other caller
\* gets "Only reporter or owner can update" and nothing changes.
C14_AuthorisedIff ==
  [][(IsUpdateStatus /\ Anchored(lastTx'.hash))
       => /\ (lastTx'.error = "") <=> Authorised(lastTx'.sender, lastTx'.hash)
          /\ (~Authorised(lastTx'.sender, lastTx'.hash))
               => /\ lastTx'.error = "Only reporter or owner can update"
                  /\ UNCHANGED ledgerState]_vars

\* C14, amended: updateStatus on an anchored hash succeeds exactly when the
\* caller is the reporter of the record or the owner and the new status is
\* not empty; any other caller gets "Only reporter or owner can update",
\* the reporter or owner passing an empty status gets "Status cannot be
\* empty", and a failed call changes nothing.
C14_AuthorisedNonEmpty ==
  [][(IsUpdateStatus /\ Anchored(lastTx'.hash))
       => LET a == lastTx'.sender
              h == lastTx'.hash
              st == lastTx'.arg
          IN /\ (lastTx'.error = "") <=> (Authorised(a, h) /\ st # "")
             /\ (lastTx'.error = "")
                  => /\ reports' = Write(reports, h, [reports[h] EXCEPT !.status = st])
                     /\ UNCHANGED <<reportsByAddress, owner>>
             /\ (~Authorised(a, h))
                  => /\ lastTx'.error = "Only reporter or owner can update"
                     /\ UNCHANGED ledgerState
             /\ (Authorised(a, h) /\ st = "")
                  => /\ lastTx'.error = "Status cannot be empty"
                     /\ UNCHANGED ledgerState]_vars

C14_Witness ==
  /\ lastTx.fn = "updateStatus" /\ lastTx.error = "Only reporter or owner can update"
  /\ Anchored(lastTx.hash)
  /\ \E k \in 1..Len(events) :
       /\ events[k].name = "StatusUpdated" /\ events[k].contentHash = lastTx.hash
       /\ events[k].updatedBy = owner
       /\ events[k].updatedBy # reports[lastTx.hash].reporter

\* C15: for a hash that was never anchored, updateStatus and getReport
\* fail with "Report does not exist" whoever calls, the owner and strangers
\* alike, and the ledger is left unchanged.
C15_NotAnchored ==
  [][((IsUpdateStatus \/ IsGetReport) /\ ~Anchored(lastTx'.hash))
       => (lastTx'.error = "Report does not exist" /\ UNCHANGED ledgerState)]_vars

C15_Witness ==
  /\ lastTx.fn = "updateStatus" /\ lastTx.error = "Report does not exist"
  /\ lastTx.sender # owner
  /\ ~Anchored(lastTx.hash)
  /\ \E h \in LedgerHashes : Anchored(h) /\ reports[h].reporter # lastTx.sender

\* C16: a record, once written, stays, with the same contentHash, reporter
\* and timestamp, whatever is called; its status changes only in a
\* successful updateStatus or emergencyUpdateStatus for that hash sent by
\* its reporter or by the owner.
C16_ImmutableExceptStatus ==
  [][\A h \in LedgerHashes :
       Anchored(h)
       => /\ h \in DOMAIN reports' /\ reports'[h].exists
          /\ reports'[h].contentHash = reports[h].contentHash
          /\ reports'[h].reporter = reports[h].reporter
          /\ reports'[h].timestamp = reports[h].timestamp
          /\ (reports'[h].status # reports[h].status)
               => /\ lastTx'.fn \in {"updateStatus", "emergencyUpdateStatus"}
                  /\ lastTx'.hash = h /\ lastTx'.error = ""
                  /\ lastTx'.arg = reports'[h].status
                  /\ Authorised(lastTx'.sender, h)]_vars

C16_Witness ==
  /\ lastTx.fn = "submitReport" /\ lastTx.error = "Report already exists"
  /\ Anchored(lastTx.hash)
  /\ reports[lastTx.hash].timestamp < blockTimestamp
  /\ \E k \in 1..Len(events) :
       /\ events[k].name = "StatusUpdated" /\ events[k].contentHash = lastTx.hash
       /\ events[k].newStatus = reports[lastTx.hash].status
       /\ events[k].updatedBy # reports[lastTx.hash].reporter

\* C17: a submitReport(h, st) by account a with a non-zero hash not yet
\* anchored and a non-empty status succeeds, stores (h, a, block.timestamp,
\* st), which getReport and reportExists then return, and emits
\* ReportSubmitted(h, a, block.timestamp, st).
C17_SubmitRecorded ==
  [][/\ (IsSubmitReport
         /\ ~Anchored(lastTx'.hash) /\ lastTx'.hash # Zero32 /\ lastTx'.arg # "")
          => /\ lastTx'.error = ""
             /\ reports' = Write(reports, lastTx'.hash,
                                 [contentHash |-> lastTx'.hash, reporter |-> lastTx'.sender,
                                  timestamp |-> blockTimestamp, status |-> lastTx'.arg,
                                  exists |-> TRUE])
             /\ events' = Append(events,
                                 [name |-> "ReportSubmitted", contentHash |-> lastTx'.hash,
                                  reporter |-> lastTx'.sender, timestamp |-> blockTimestamp,
                                  status |-> lastTx'.arg])
     /\ (IsGetReport /\ Anchored(lastTx'.hash))
          => lastTx'.ret = [timestamp |-> reports[lastTx'.hash].timestamp,
                            status |-> reports[lastTx'.hash].status,
                            reporter |-> reports[lastTx'.hash].reporter]
     /\ IsReportExistsCall => lastTx'.ret = [exists |-> Anchored(lastTx'.hash)]]_vars

C17_Witness ==
  /\ lastTx.fn = "getReport" /\ lastTx.error = ""
  /\ lastTx.ret.status = "submitted" /\ lastTx.ret.reporter \notin {owner, lastTx.sender}
  /\ lastTx.ret.timestamp = blockTimestamp
  /\ events[Len(events)] =
       [name |-> "ReportSubmitted", contentHash |-> lastTx.hash,
        reporter |-> lastTx.ret.reporter, timestamp |-> lastTx.ret.timestamp,
        status |-> "submitted"]

\* ----------------------------------------------------------------------
\* the page, the ledger and the gateway together
\* ----------------------------------------------------------------------
\* the content hashes of the jobs on the queue
QueuedHashes == {JSONparse(queue[k]).contentHash : k \in 1..Len(queue)}

\* page c has built the payload of its report
HasPayload(c) == browser[c].pc # "closed" /\ Has(browser[c].payload, "contentHash")

\* the key under which the ledger holds the report of page c
AnchorOf(c) == Keccak256(browser[c].payload.contentHash)

\* a submit handler still works on the report of page c
InFlight(c) ==
  \E s \in Slots : /\ slot[s].pc # "idle" /\ slot[s].op = "submit"
                   /\ slot[s].loc.body.contentHash = browser[c].payload.contentHash

\* a step of the pages, the wallets, the chain and the gateway keeps them apart
C18_Step ==
  /\ \A c \in Clients :
      (/\ browser[c].pc = "anchor"
       /\ browser'[c].pc \notin {"anchor", "abandoned"}
       /\ mempool' = mempool)
        => /\ browser'[c].pc = "post"
           /\ browser'[c].payload = browser[c].payload
           /\ ~Has(browser'[c].payload, "ethTxHash")
  /\ \A c \in Clients :
      (browser[c].pc # "done" /\ browser'[c].pc = "done")
        => /\ browser[c].payload.contentHash \in QueuedHashes'
           /\ (Has(report'[browser'[c].currentReport.reportId], "ethTxHash")
                 <=> Has(browser[c].payload, "ethTxHash"))
  /\ (slot' # slot \/ queue' # queue \/ report' # report)
        => UNCHANGED <<ledgerVars, mempool>>
  /\ \A c \in Clients :
      (browser[c].pc \in {"post", "waiting"} /\ browser'[c].pc = "failed")
        => /\ UNCHANGED <<ledgerVars, mempool>>
           /\ (lastResp' # lastResp
                 => (lastResp'.resp.code = 500 /\ lastResp'.log \in {"lPush", "hSet"}))

\* C18: anchoring and queueing do not depend on each other. When the
\* anchoring call of a page fails, the page goes on to post the report, the
\* payload unchanged and without ethTxHash, and a page told of success
\* after such a failure has its job on the queue. No step of the gateway's
\* submit handler and no failure of the post changes the ledger or the
\* pending transactions, and a submit answered 500 threw in lPush or hSet.
C18_Independent == [][C18_Step]_vars

C18_Witness ==
  \E c \in Clients :
    /\ browser[c].pc = "done" /\ browser[c].warned
    /\ ~Has(browser[c].payload, "ethTxHash")
    /\ browser[c].payload.contentHash \in QueuedHashes

C20_RoundTrip ==
  /\ roundTrip.pc # "threw"
  /\ (roundTrip.pc = "decrypted" => roundTrip.plain = roundTrip.data)

\* the texts the server side holds: the bodies its handlers work on, the
\* jobs on the queue, the status records, and the recipient key the page is
\* built with
ServerKnows ==
  {"demo-recipient-key"}
  \cup UNION {{slot[s].loc.body.encryptedData, slot[s].loc.body.wrappedKey,
               slot[s].loc.body.contentHash} :
                s \in {x \in Slots : slot[x].op = "submit" /\ slot[x].pc # "idle"}}
  \cup UNION {{JSONparse(queue[k]).encryptedData, JSONparse(queue[k]).wrappedKey,
               JSONparse(queue[k]).contentHash} : k \in 1..Len(queue)}
  \cup {report[i].contentHash : i \in {x \in ReportIds : Has(report[x], "contentHash")}}

\* the keys the server side gets by unwrapping what it holds with what it holds
ServerUnwraps ==
  {r.value : r \in {o \in UNION {UnwrapKey(w, p) : w \in ServerKnows, p \in ServerKnows} :
                      o.error = ""}}

\* C21: whatever the server side holds (the payloads, the queue, the status
\* store and the public recipient key), the report key of no page can be
\* derived from it.
C21_KeyConfidential ==
  \A c \in Clients : HasPayload(c) => GenerateKey(c) \notin ServerUnwraps

\* the content hash that belongs to an envelope carried as its text
HashOfText(text) == "sha3(" \o text \o ")"

\* C22: the contentHash of every job on the queue and of every status
\* record is the hash of the ciphertext envelope stored with it.
C22_HashBound ==
  /\ \A k \in 1..Len(queue) :
       JSONparse(queue[k]).contentHash = HashOfText(JSONparse(queue[k]).encryptedData)
  /\ \A i \in ReportIds :
       HasStatusRecord(i)
       => report[i].contentHash = HashOfText(JSONparse(report[i].jobData).encryptedData)

\* the values a submission of reportId i brought or passed on: the body its
\* handler works on, its job on the queue, its status record
CarriedValues(i) ==
  UNION {{slot[s].loc.body.encryptedData, slot[s].loc.body.wrappedKey,
          slot[s].loc.body.contentHash} :
           s \in {x \in Slots : slot[x].op = "submit" /\ slot[x].pc # "idle" /\ slot[x].id = i}}
  \cup UNION {{JSONparse(queue[k]).encryptedData, JSONparse(queue[k]).wrappedKey,
               JSONparse(queue[k]).contentHash} :
                k \in {x \in 1..Len(queue) : JSONparse(queue[x]).reportId = i}}
  \cup (IF HasStatusRecord(i)
          THEN {report[i].contentHash, JSONparse(report[i].jobData).wrappedKey,
                JSONparse(report[i].jobData).encryptedData}
          ELSE {})

\* C23: the key under which an attachment is encrypted in the blob store is
\* no value the request of its submission brought, and is held neither by
\* the job nor by the status record of that submission.
C23_ServerHeldKey ==
  \A b \in blobs : b.cipherKey \notin CarriedValues(b.key[2])

\* the blobs a step writes belong to the submission that writes them and
\* take no key in use
C24_Step ==
  (blobs' # blobs)
  => \E s \in Slots :
       /\ slot[s].op = "submit" /\ slot[s].pc = "upload" /\ slot'[s] # slot[s]
       /\ \A b \in blobs' \ blobs :
            /\ b.key[2] = slot[s].id
            /\ \A x \in blobs : x.key # b.key

\* C24: every blob key starts with reports/<reportId> of a submission, a
\* blob is written by the submission whose reportId its key carries and
\* under a key no blob has yet, and every attachment listed in a queued job
\* carries the reportId of that job.
C24_BlobNamespace ==
  /\ [](\A b \in blobs : b.key[1] = "reports" /\ b.key[2] \in 1..(nextId - 1))
  /\ [](\A k \in 1..Len(queue) : \A f \in 1..Len(JSONparse(queue[k]).files) :
          /\ JSONparse(queue[k]).files[f][1] = "reports"
          /\ JSONparse(queue[k]).files[f][2] = JSONparse(queue[k]).reportId)
  /\ [][C24_Step]_vars

C24_Witness ==
  /\ \E b1 \in blobs, b2 \in blobs : b1.key[2] # b2.key[2]
  /\ \E k \in 1..Len(queue) : Len(JSONparse(queue[k]).files) > 0

\* C25: a callback that is answered success while no other handler works
\* on its reportId leaves the status it carried beside the summary it
\* carried: the stored status and summary stem from one callback.
C25_Serialized ==
  [][\A s \in Slots :
       (/\ WebhookSetResult(s, TRUE)
        /\ OnlyHandler(s, slot[s].id)
        /\ HasStatusRecord(slot[s].id)
        /\ report[slot[s].id].status # "received")
       => /\ report'[slot[s].id].status = slot[s].loc.status
          /\ result'[slot[s].id].redactionSummary = slot[s].loc.resultFields.redactionSummary
    ]_vars

\* C26: the status write of a submission leaves a terminal status alone
\* that a callback, applied after the queue push, has stored for its
\* reportId.
C26_InitialOnly ==
  [][\A s \in Slots :
       (/\ SubmitStore(s, TRUE)
        /\ Has(report[slot[s].id], "status")
        /\ report[slot[s].id].status \in Terminal
        /\ Has(lastApplied[slot[s].id], "status")
        /\ lastApplied[slot[s].id].status = report[slot[s].id].status)
       => report'[slot[s].id].status = report[slot[s].id].status
    ]_vars

\* the statuses of a record and their order
RecordStatuses == {"received", "queued", "processing", "completed", "failed"}

StatusRank(st) ==
  CASE st = "received" -> 0
    [] st = "queued" -> 1
    [] st = "processing" -> 2
    [] OTHER -> 3

\* the status of the record a submission wrote changes forwards only
C27_Step ==
  \A i \in ReportIds :
    (HasStatusRecord(i) /\ report'[i].status # report[i].status)
    => StatusRank(report'[i].status) > StatusRank(report[i].status)

\* C27: the status of every status record is one of received, queued,
\* processing, completed, failed, and it changes only forwards in the order
\* received, queued, processing, completed or failed.
C27_StatusOrder ==
  /\ [](\A i \in ReportIds : HasStatusRecord(i) => report[i].status \in RecordStatuses)
  /\ [][C27_Step]_vars

\* the transaction the wallet of page c sends for its report
ProofTx(c) ==
  [from |-> Signer(c), hash |-> AnchorOf(c), status |-> "submitted",
   txHash |-> TxHash(Signer(c), AnchorOf(c))]

\* page c was told its report is queued, and the transaction that anchors
\* the report is mined
SubmittedWithAnchor(c) ==
  /\ browser[c].pc = "done"
  /\ Has(browser[c].payload, "ethTxHash")
  /\ ProofTx(c) \notin mempool

C29_WrapRoundTrip ==
  roundTrip.pc = "unwrapped"
  => /\ (roundTrip.secret = roundTrip.pair.privateKey
           => roundTrip.outcome = Value(roundTrip.key))
     /\ (roundTrip.secret # roundTrip.pair.privateKey
           => roundTrip.outcome # Value(roundTrip.key))

\* C30: a status response with a terminal status carries a redaction
\* summary, and a status response with a redaction summary does not carry
\* the initial status.
C30_ConsistentRead ==
  (lastResp.op = "status" /\ lastResp.resp.code = 200)
  => /\ (lastResp.resp.status \in Terminal => lastResp.resp.redactionPreview # Null)
     /\ (lastResp.resp.redactionPreview # Null => lastResp.resp.status # "received")

\* the pages whose payload carries the contentHash h
PagesOf(h) == {c \in Clients : HasPayload(c) /\ browser[c].payload.contentHash = h}

\* C31: when the status record of a report carries an ethTxHash, the ledger
\* holds a record for the content hash of that report (under its keccak256,
\* the key the page anchors it with), and the reporter of that record is
\* the wallet of the page that submitted the report.
C31_TxHashMeansAnchor ==
  \A i \in ReportIds :
    (HasStatusRecord(i) /\ Has(report[i], "ethTxHash"))
    => /\ Anchored(Keccak256(report[i].contentHash))
       /\ \E c \in PagesOf(report[i].contentHash) :
            reports[Keccak256(report[i].contentHash)].reporter = Signer(c)

\* the hashes whose record names account a as the reporter
RecordsOf(a) == {h \in DOMAIN reports : reports[h].exists /\ reports[h].reporter = a}

\* the hashes on the list of account a
Listed(a) == {ReadList(reportsByAddress, a)[k] : k \in 1..Len(ReadList(reportsByAddress, a))}

IsGetReportsByAddress ==
  lastTx'.fn = "getReportsByAddress" /\ GetReportsByAddress(lastTx'.sender, lastTx'.arg)
IsGetReportCount ==
  lastTx'.fn = "getReportCount" /\ GetReportCount(lastTx'.sender, lastTx'.arg)

\* the two views of the index answer from the list of the address asked for
C32_Step ==
  /\ IsGetReportsByAddress
       => /\ lastTx'.error = ""
          /\ {lastTx'.ret.hashes[k] : k \in 1..Len(lastTx'.ret.hashes)} = RecordsOf(lastTx'.arg)
          /\ Len(lastTx'.ret.hashes) = Cardinality(RecordsOf(lastTx'.arg))
  /\ IsGetReportCount
       => /\ lastTx'.error = ""
          /\ lastTx'.ret.count = Cardinality(RecordsOf(lastTx'.arg))

\* C32: for every address, the list reportsByAddress holds exactly the
\* hashes whose record exists with that address as reporter, each once, and
\* getReportsByAddress and getReportCount return that list and its length.
C32_IndexConsistent ==
  /\ [](\A a \in Accounts \cup {ZeroAddress} :
          /\ Listed(a) = RecordsOf(a)
          /\ Len(ReadList(reportsByAddress, a)) = Cardinality(RecordsOf(a)))
  /\ [][C32_Step]_vars

C32_Witness ==
  /\ lastTx.fn = "getReportCount" /\ lastTx.ret.count = 2
  /\ Cardinality(RecordsOf(lastTx.arg)) = 2
  /\ lastTx.arg # lastTx.sender

\* C33: every record of the ledger has a non-zero contentHash and a
\* non-empty status, and a submitReport with a zero hash or an empty status
\* and an updateStatus or emergencyUpdateStatus with an empty status fail
\* and change nothing.
C33_WellFormed ==
  /\ [](\A h \in DOMAIN reports :
          reports[h].exists
          => (reports[h].contentHash # Zero32 /\ reports[h].status # ""))
  /\ [][(/\ lastTx' # lastTx
         /\ lastTx'.fn \in {"submitReport", "updateStatus", "emergencyUpdateStatus"}
         /\ (lastTx'.arg = "" \/ (lastTx'.fn = "submitReport" /\ lastTx'.hash = Zero32)))
          => (lastTx'.error # "" /\ UNCHANGED ledgerState)]_vars

====
